---- MODULE Spec2Model ----
(***************************************************************************)
(* MAKDO health-check driver (ch11/src/makdo/main.py): session issuance,   *)
(* token injection into the sub-agents' conversation histories and the     *)
(* health-check loop of start_coordinator.                                 *)
(*                                                                         *)
(* The agent framework (ai_six) and the admin API are external: a         *)
(* coordinator call is modelled by its visible effects (messages appended  *)
(* to the coordinator's and the sub-agents' histories, a response or an    *)
(* exception); the admin API by the outcome of the session-create request. *)
(* KeyboardInterrupt is modelled inside the try block of the loop.         *)
(***************************************************************************)
EXTENDS Integers, Sequences, FiniteSets, TLC

\* ------------------------------------------------------------------ bounds
\* Cycles of the health-check loop the model follows.
MaxCycles == 2
\* Longest coordinator history the model follows.
MaxMsgs == 4
\* Messages one coordinator call appends to the coordinator's history, at most.
MaxAppend == 3
\* Longest sub-agent history the model follows.
MaxSubMsgs == 2
\* Runs of the injection step the model follows when the step is repeated.
MaxRuns == 3

\* ------------------------------------------------------------- vocabulary
None == "None"

\* Session tokens the admin API can hand out (and that an earlier run left
\* behind in a persisted sub-agent history).
Tokens == {"tokA", "tokB"}

\* Cluster contexts of the configuration.
Contexts == {"kind-a", "kind-b"}

\* Tool names are kept as their segments, so that startswith("agent_") and
\* replace("agent_", "") act on them as they do on the strings.
AnalyzerTool == <<"agent_", "MAKDO_Analyzer">>
FixerTool == <<"agent_", "MAKDO_Fixer">>
SlackTool == <<"agent_", "MAKDO_Slack_Bot">>
PlainTool == <<"kubectl">>

\* The sub-agents the driver injects into (main.py:183).
TargetAgents == {<<"MAKDO_Analyzer">>, <<"MAKDO_Fixer">>}

\* tool_name.startswith("agent_")
StartsWithAgent(name) == Len(name) > 0 /\ name[1] = "agent_"

\* tool_name.replace("agent_", ""): every occurrence is removed.
AgentName(name) == SelectSeq(name, LAMBDA s : s # "agent_")

\* The coordinator's tool_dict, in insertion order.  agent: "ok" the tool is
\* an AgentTool with a usable agent, "broken" its agent has no usable session
\* (agent.session.messages raises), "none" the tool has no .agent attribute.
Tool(n, a) == [name |-> n, agent |-> a]

\* A sub-agent whose own name begins with "agent_": its tool is named
\* "agent_agent_MAKDO_Fixer".
OddTool == <<"agent_", "agent_", "MAKDO_Fixer">>

ToolDicts ==
  { <<Tool(AnalyzerTool, "ok"), Tool(FixerTool, "ok"), Tool(SlackTool, "ok"), Tool(PlainTool, "none")>>,
    <<Tool(AnalyzerTool, "ok"), Tool(SlackTool, "ok")>>,
    <<Tool(SlackTool, "ok"), Tool(PlainTool, "none")>>,
    <<Tool(AnalyzerTool, "ok"), Tool(FixerTool, "none")>>,
    <<Tool(AnalyzerTool, "ok"), Tool(FixerTool, "broken")>> }

\* The tool_dicts the injection step is run on when it is looked at on its own.
InjectToolDicts ==
  ToolDicts \cup { <<Tool(AnalyzerTool, "ok"), Tool(OddTool, "ok")>> }

\* ---------------------------------------------------------------- messages
\* The f-string of main.py:196-209 as its literal parts and interpolations.
SessionContextContent(cluster_context, session_token) ==
  << "K8s Cluster Session: You have been given access to the '", cluster_context,
     "' Kubernetes cluster. Session Token: ", session_token,
     " ... kubernetes_resource_health: session_token=", session_token,
     ", resource_type=pod, namespace=all",
     " ... Example: kubernetes_resource_health: session_token=", session_token,
     ", resource_type=pod, namespace=all",
     " kubernetes_diagnose_issue: session_token=", session_token,
     ", issue_description=check pods not starting, namespace=all",
     " Always include the session_token and use namespace=all in your message." >>

SystemMessage(content) == [role |-> "system", content |-> content]

\* What a sub-agent's own conversation adds to its history.
ChatMessage == [role |-> "chat", content |-> <<"...">>]

\* An injected session-context block: a system message that opens with the
\* marker of main.py:196.
IsInjected(m) ==
  /\ m.role = "system"
  /\ Len(m.content) >= 4
  /\ m.content[1] = "K8s Cluster Session: You have been given access to the '"

\* The session tokens a history mentions.
TokensIn(msgs) ==
  { t \in Tokens : \E i \in 1..Len(msgs) : \E j \in 1..Len(msgs[i].content) : msgs[i].content[j] = t }

InjectedBlocks(msgs) == SelectSeq(msgs, IsInjected)

VARIABLES
  pc,              \* the driver's position in main/start_coordinator
  clusters,        \* config["clusters"], as the contexts of its entries
  check_interval,  \* MAKDO_CHECK_INTERVAL / monitoring.check_interval
  tool_dict,       \* coordinator.tool_dict
  hist,            \* hist[i]: tool_dict[i].agent.session.messages
  hist0,           \* the sub-agent histories start_coordinator was entered with
  coord_msgs,      \* coordinator.session.messages (roles)
  cluster_context, \* start_coordinator's cluster_context
  session_token,   \* start_coordinator's session_token
  injected_count,  \* start_coordinator's injected_count
  inject_runs,     \* times the injection step (main.py:174-223) has run
  admin,           \* what a session-create attempt meets right now
  expired,         \* the issued session has passed its expires_at
  issue_calls,     \* create_k8s_ai_session calls made so far
  cycle,           \* cycles of the loop begun so far
  all_raised,      \* coordinator.send_message has raised in every cycle so far
  call,            \* the coordinator call of the current cycle
  response,        \* what the coordinator call returned
  exit_cause,      \* what made control leave the while loop
  saved,           \* coordinator.session.save() has been called
  sleeps,          \* the lengths of the time.sleep calls that have returned
  log,             \* the log records written so far (main.py's loggers)
  auth,            \* admin API: the ApiKeyManager's keys and A2A_API_KEY
  sessions,        \* session manager: the stored sessions
  issued,          \* session manager: tokens generated so far
  now,             \* the clock the session manager reads
  reqs,            \* admin API: reqs[c] is the handler running for client c
  last,            \* admin API: the response the last step sent, if any
  granted,         \* granted[t]: the expires_at of the session created for token t
  del_true,        \* del_true[t]: delete responses that said deleted=true for t
  slack,           \* the Slack tool: its configuration, its call and its result
  monitor,         \* tool-call monitoring: the tools' run attributes and the last call
  server           \* the demo's K8sAIServerManager and the processes around it

\* The driver's own variables.
driverVars == << pc, clusters, check_interval, tool_dict, hist, hist0, coord_msgs,
                 cluster_context, session_token, injected_count, inject_runs, admin,
                 expired, issue_calls, cycle, all_raised, call, response, exit_cause,
                 saved, sleeps >>

\* The variables of the components around the driver.
extVars == << log, auth, sessions, issued, now, reqs, last, granted, del_true, slack,
              monitor, server >>

\* The admin API's and the session manager's variables.
adminVars == << auth, sessions, issued, now, reqs, last, granted, del_true >>

vars == << driverVars, extVars >>

\* ------------------------------------------------------- session issuance
\* What a session-create attempt can meet: the admin API answers 200 with a
\* token ("ok"), kubectl fails, the API is unreachable, the request times
\* out, the API answers a non-200 status, or 200 without a session_token.
AdminStates == {"ok", "kubectl_fail", "unreachable", "timeout", "http_error", "no_token"}

\* subprocess.check_output raises (main.py:55-58).
KubectlRaises(adm) == adm = "kubectl_fail"

\* requests.post raises ConnectionError or Timeout (main.py:62-71).
PostRaises(adm) == adm \in {"unreachable", "timeout"}

\* response.status_code
StatusCode(adm) == IF adm = "http_error" THEN 500 ELSE 200

\* data.get("session_token")
TokenField(adm, tok) == IF adm = "no_token" THEN None ELSE tok

\* The body of the try block (main.py:52-80): what it returns, or that it
\* raised.  session_token[:20] on a missing token raises TypeError.
CreateSessionTry(adm, tok) ==
  IF KubectlRaises(adm) \/ PostRaises(adm)
    THEN [ret |-> None, raised |-> TRUE]
    ELSE IF StatusCode(adm) = 200
      THEN IF TokenField(adm, tok) = None
             THEN [ret |-> None, raised |-> TRUE]
             ELSE [ret |-> TokenField(adm, tok), raised |-> FALSE]
      ELSE [ret |-> None, raised |-> FALSE]

\* Mutant: the except clause of main.py:82-84 is missing.
create_k8s_ai_session_no_except(adm, tok) == CreateSessionTry(adm, tok)

\* create_k8s_ai_session (main.py:45-84): except Exception returns None.
create_k8s_ai_session(adm, tok) ==
  IF CreateSessionTry(adm, tok).raised
    THEN [ret |-> None, raised |-> FALSE]
    ELSE CreateSessionTry(adm, tok)

\* -------------------------------------------------------- token injection
\* Mutant: the history is not cleared before the block is appended.
InjectOne_no_clear(msgs, token, ctx) ==
  Append(msgs, SystemMessage(SessionContextContent(ctx, token)))

\* main.py:190-213 for one sub-agent: clear the history, append the block.
InjectOne(msgs, token, ctx) ==
  Append(<< >>, SystemMessage(SessionContextContent(ctx, token)))

\* Mutant: only the Analyzer is injected into.
IsTarget_analyzer_only(t) ==
  /\ StartsWithAgent(t.name)
  /\ AgentName(t.name) = <<"MAKDO_Analyzer">>
  /\ t.agent # "none"

\* Whether the loop of main.py:176-216 injects into tool t.
IsTarget(t) ==
  /\ StartsWithAgent(t.name)
  /\ AgentName(t.name) \in TargetAgents
  /\ t.agent # "none"

\* The loop of main.py:176-216 from tool i on: the histories, the count, and
\* whether an exception left the loop.
RECURSIVE InjectLoop(_, _, _, _, _)
InjectLoop(i, h, n, token, ctx) ==
  IF i > Len(tool_dict)
    THEN [hist |-> h, count |-> n, raised |-> FALSE]
    ELSE IF IsTarget(tool_dict[i])
      THEN IF tool_dict[i].agent = "broken"
             THEN [hist |-> h, count |-> n, raised |-> TRUE]
             ELSE InjectLoop(i + 1, [h EXCEPT ![i] = InjectOne(h[i], token, ctx)],
                             n + 1, token, ctx)
      ELSE InjectLoop(i + 1, h, n, token, ctx)

\* ------------------------------------------------------------ the loop
\* The positions inside the try block of main.py:227-266.
LoopPcs == {"loop", "send_message", "hung", "log_response", "reset", "except", "sleep"}

\* What a coordinator call appends to the coordinator's history.
Appended(k) ==
  [i \in 1..k |-> IF i = 1 THEN "user" ELSE IF i = k THEN "assistant" ELSE "tool"]

\* main.py:251-258: the history after the reset step.
ResetHistory(msgs) == IF Len(msgs) > 3 THEN << msgs[1] >> ELSE msgs

\* time.sleep raises ValueError for a negative length (main.py:266).
SleepRaises(interval) == interval < 0

\* main.py:266: the length of the sleep between two cycles.
SleepLength(interval) == interval

\* Mutant: the save sits in the KeyboardInterrupt handler, not in finally.
SavesOnExit_interrupt_only(cause) == cause = "KeyboardInterrupt"

\* main.py:270-272: whether the session is saved when the loop is left.
SavesOnExit(cause) == TRUE

\* ------------------------------------------------------- the Slack tool
\* The longest channel name, in characters.
MaxChannelLen == 3

ChannelChars == {"#", "a"}

\* The channel names a call may carry.
Channels == UNION { [1..n -> ChannelChars] : n \in 0..MaxChannelLen }

\* The three copies of the tool: SlackPostMessage.run (tools/
\* slack_post_message.py), slack_post_message (tools/slack_tools.py) and the
\* MCP server's slack_post_message (mcp_tools/slack.py).
SlackVariants == {"tool", "function", "mcp"}

\* What requests.post and response.json() come to: a JSON object with or
\* without "ok" and "error", an exception of requests.post, and a body that
\* is no JSON.
SlackReplies ==
  { [kind |-> "json", ok |-> TRUE, has_error |-> FALSE, error |-> None],
    [kind |-> "json", ok |-> FALSE, has_error |-> TRUE, error |-> "channel_not_found"],
    [kind |-> "json", ok |-> FALSE, has_error |-> FALSE, error |-> None],
    [kind |-> "raises", ok |-> FALSE, has_error |-> FALSE, error |-> "timed out"],
    [kind |-> "not_json", ok |-> FALSE, has_error |-> FALSE,
     error |-> "Expecting value"] }

\* The reply in one word.
ReplyKind(reply) ==
  IF reply.kind = "json" THEN (IF reply.ok THEN "json_ok" ELSE "json_failed")
  ELSE reply.kind

\* channel.startswith('#')
StartsWithHash(channel) == Len(channel) > 0 /\ channel[1] = "#"

\* slack_post_message.py:59-61, slack_tools.py:48-50, mcp_tools/slack.py:47-49
NormalizeChannel_always_prefixes(channel) == << "#" >> \o channel

NormalizeChannel(channel) ==
  IF ~StartsWithHash(channel) THEN << "#" >> \o channel ELSE channel

\* A result string: its fixed text, the channel and the error it names.
ResultString(text, channel, error) ==
  [text |-> text, channel |-> channel, error |-> error]

NoResult == ResultString("", << >>, None)

\* slack_post_message.py:73-84, slack_tools.py:62-73, mcp_tools/slack.py:61-72
PostResult(channel, reply) ==
  IF reply.kind = "json"
    THEN IF reply.ok
      THEN ResultString("Message posted to", channel, None)
      ELSE ResultString("Failed to post to", channel,
                        IF reply.has_error THEN reply.error ELSE "unknown_error")
    ELSE ResultString("Exception posting to Slack", << >>, reply.error)

\* slack_post_message.py:56-57, slack_tools.py:45-46
Disabled == ResultString("AI6_BOT_TOKEN not found - Slack posting disabled", << >>, None)

\* slack_post_message.py:54-57, slack_tools.py:43-46: the token is looked up
\* in the call; mcp_tools/slack.py:37-49 has no such test.
ChecksTokenInCall(variant) == variant \in {"tool", "function"}

\* mcp_tools/slack.py:32-33: the module raises when there is no token.
ImportRaises(variant, bot_token) == variant = "mcp" /\ ~bot_token

SlackOff ==
  [ pc |-> "off", variant |-> "tool", bot_token |-> FALSE, channel |-> << >>,
    reply |-> None, posted |-> << >>, http_calls |-> 0, raised |-> FALSE,
    result |-> NoResult ]

\* The tool is loaded: its module is imported.
SlackImport ==
  /\ slack.pc = "load"
  /\ slack' = IF ImportRaises(slack.variant, slack.bot_token)
                THEN [slack EXCEPT !.pc = "import_error", !.raised = TRUE]
                ELSE [slack EXCEPT !.pc = "ready"]
  /\ UNCHANGED << driverVars, adminVars, log, monitor, server >>

\* The tool is called with slack.channel.
SlackPostMessage ==
  /\ slack.pc = "ready"
  /\ IF ChecksTokenInCall(slack.variant) /\ ~slack.bot_token
       THEN slack' = [slack EXCEPT !.pc = "done", !.result = Disabled]
       ELSE \E reply \in SlackReplies :
              LET channel == NormalizeChannel(slack.channel) IN
              slack' = [slack EXCEPT !.pc = "done",
                                     !.reply = ReplyKind(reply),
                                     !.posted = channel,
                                     !.http_calls = @ + 1,
                                     !.result = PostResult(channel, reply)]
  /\ UNCHANGED << driverVars, adminVars, log, monitor, server >>

\* ------------------------------------------------- admin API: the bounds
\* The latest time the clock reaches.
MaxTime == 2

\* -------------------------------------------- session manager (registry)
\* The tokens the session manager generates, in the order it generates them.
SessionTokens == << "s1", "s2" >>

\* A token the session manager never generated.
NeverIssued == "s9"

AdminTokens == { SessionTokens[i] : i \in 1..Len(SessionTokens) } \cup { NeverIssued }

NoSession == [token |-> None]

\* create: a ValueError for a credential blob that cannot be parsed and for
\* a TTL that is not positive.
Mgr_create_raises(kubeconfig, ttl_hours) ==
  kubeconfig = "malformed" \/ ttl_hours <= 0

\* create: the session stored for a fresh token.
Mgr_new_session(tok, cluster_name, ttl_hours, client_api_key, t) ==
  [ token |-> tok, cluster_name |-> cluster_name, created_by |-> client_api_key,
    expires_at |-> t + ttl_hours,
    api_server |-> "https://demo:6443", namespace |-> "default" ]

\* get: the stored session while now < expires_at, and nothing otherwise.
Mgr_get(store, tok, t) ==
  IF \E x \in store : x.token = tok /\ t < x.expires_at
    THEN CHOOSE x \in store : x.token = tok /\ t < x.expires_at
    ELSE NoSession

\* list: the sessions not expired, of one creator when a key is given, in
\* the order of creation, without their credentials.
RECURSIVE Mgr_list_from(_, _, _, _, _)
Mgr_list_from(i, store, filtered, client_api_key, t) ==
  IF i > Len(SessionTokens)
    THEN << >>
    ELSE LET x == Mgr_get(store, SessionTokens[i], t)
             rest == Mgr_list_from(i + 1, store, filtered, client_api_key, t) IN
         IF x # NoSession /\ (~filtered \/ x.created_by = client_api_key)
           THEN << [token |-> x.token, cluster_name |-> x.cluster_name,
                    created_by |-> x.created_by, expires_at |-> x.expires_at] >> \o rest
           ELSE rest

Mgr_list(store, filtered, client_api_key, t) ==
  Mgr_list_from(1, store, filtered, client_api_key, t)

\* delete: a stored session that is not expired is removed; whether one was.
Mgr_delete(store, tok, t) ==
  IF Mgr_get(store, tok, t) # NoSession
    THEN [store |-> { x \in store : x.token # tok }, removed |-> TRUE]
    ELSE [store |-> store, removed |-> FALSE]

\* ------------------------------------------------- admin API: the handlers
Clients == {"c1", "c2"}

\* Bearer keys a request may carry.
ApiKeys == {"keyA", "keyB", "bad"}

\* create_admin_app's api_key_manager (absent, or the keys it validates) and
\* the A2A_API_KEY of the environment.
AuthConfigs ==
  { [manager |-> FALSE, keys |-> {}, env |-> "keyA"],
    [manager |-> TRUE, keys |-> {"keyA"}, env |-> "keyB"] }

\* No admin API: neither an ApiKeyManager nor an A2A_API_KEY.
NoAuth == [manager |-> FALSE, keys |-> {}, env |-> None]

\* verify_admin_token (admin_api.py:47-60): whether the key is let in.
VerifyAdminToken(a, key) ==
  \/ a.manager /\ key \in a.keys
  \/ a.env # None /\ key = a.env

\* The TTLs (hours) and credential blobs a create request may carry.
Ttls == {-1, 0, 1, 2}
Kubeconfigs == {"valid", "malformed"}

\* A response, with the request it answers (key, kubeconfig, ttl_hours); the
\* fields an endpoint does not set keep these values.
Response(op, c, key) ==
  [ op |-> op, client |-> c, key |-> key, code |-> 200, success |-> FALSE,
    token |-> None, status |-> None, error |-> None, expires_at |-> 0,
    deleted |-> FALSE, listed |-> << >>, probe |-> None,
    kubeconfig |-> None, ttl_hours |-> 0 ]

\* admin_api.py:60: HTTPException(401)
Unauthorized(op, c, key) == [Response(op, c, key) EXCEPT !.code = 401]

\* admin_api.py:105-116: the error a failed creation is answered with.
CreateErrorClass_generic(exc) == "Session creation failed"

CreateErrorClass(exc) ==
  IF exc = "ValueError" THEN "Configuration error" ELSE "Session creation failed"

\* admin_api.py:105-116
CreateFailed(c, key, kubeconfig, ttl_hours, exc) ==
  [ Response("create", c, key) EXCEPT
      !.error = CreateErrorClass(exc),
      !.kubeconfig = kubeconfig, !.ttl_hours = ttl_hours ]

\* admin_api.py:80-92: connectivity_status.
ConnectivityStatus_probe_fatal(session, probe) ==
  IF session # NoSession /\ probe = "ok" THEN "connected" ELSE "error"

ConnectivityStatus(session, probe) ==
  IF session # NoSession
    THEN IF probe = "ok" THEN "connected" ELSE "warning"
    ELSE "error"

\* admin_api.py:94-103: the response to a creation that did not raise.
CreateResponse(c, key, ttl_hours, tok, session, probe) ==
  [ Response("create", c, key) EXCEPT
      !.success = TRUE,
      !.token = tok,
      !.status = ConnectivityStatus(session, probe),
      !.expires_at = IF session # NoSession THEN session.expires_at ELSE 0,
      !.probe = IF session # NoSession THEN probe ELSE None,
      !.kubeconfig = "valid", !.ttl_hours = ttl_hours ]

\* admin_api.py:153-161: the store after the handler's delete, and deleted.
DeleteOutcome_keeps(store, found, tok, t) ==
  [store |-> store, removed |-> found]

DeleteOutcome(store, found, tok, t) ==
  IF found THEN Mgr_delete(store, tok, t) ELSE [store |-> store, removed |-> FALSE]

\* admin_api.py:163-169
DeleteResponse_always_deleted(c, key, tok, deleted) ==
  [ Response("delete", c, key) EXCEPT
      !.success = TRUE, !.token = tok, !.deleted = TRUE ]

DeleteResponse(c, key, tok, deleted) ==
  [ Response("delete", c, key) EXCEPT
      !.success = TRUE, !.token = tok, !.deleted = deleted ]

\* admin_api.py:122, 135: whether the list endpoint passes its key on.
ListFiltered_never(op) == FALSE

ListFiltered(op) == op = "mine"

\* admin_api.py:123-126, 136-139
ListResponse(op, c, key, store, t) ==
  [ Response(op, c, key) EXCEPT
      !.success = TRUE,
      !.listed = Mgr_list(store, ListFiltered(op), key, t) ]

\* No response: the step sent none.
NoResponse == Response("none", "c1", None)

\* A client without a request, and one whose request has reached the server.
Idle == [op |-> "idle", token |-> None, key |-> None, found |-> FALSE, ttl_hours |-> 0]
Waiting == [Idle EXCEPT !.op = "waiting"]

Running(c) == reqs[c] \notin {Idle, Waiting}

\* The handlers are coroutines without an await (admin_api.py:63, 119, 132,
\* 145) on the one event loop of uvicorn.run (admin_api.py:193): a handler
\* starts only when no other is running.
CanStart_threaded(c) == reqs[c] = Waiting

CanStart(c) ==
  /\ reqs[c] = Waiting
  /\ \A d \in Clients : ~Running(d)

AdminIdle ==
  /\ sessions = {}
  /\ issued = 0
  /\ now = 0
  /\ reqs = [c \in Clients |-> Idle]
  /\ last = NoResponse
  /\ granted = [t \in AdminTokens |-> 0]
  /\ del_true = [t \in AdminTokens |-> 0]

\* A request of client c reaches the server.
Arrive(c) ==
  /\ reqs[c] = Idle
  /\ reqs' = [reqs EXCEPT ![c] = Waiting]
  /\ last' = NoResponse
  /\ UNCHANGED << auth, sessions, issued, now, granted, del_true, log, slack, monitor, server, driverVars >>

\* POST /sessions, to the call of session_manager.create_session
\* (admin_api.py:62-76, 105-116).
CreateStart(c) ==
  /\ CanStart(c)
  /\ \E key \in ApiKeys, kubeconfig \in Kubeconfigs, ttl_hours \in Ttls :
       IF ~VerifyAdminToken(auth, key)
         THEN /\ last' = Unauthorized("create", c, key)
              /\ reqs' = [reqs EXCEPT ![c] = Idle]
              /\ UNCHANGED << sessions, issued, granted >>
         ELSE IF Mgr_create_raises(kubeconfig, ttl_hours)
           THEN /\ last' = CreateFailed(c, key, kubeconfig, ttl_hours, "ValueError")
                /\ reqs' = [reqs EXCEPT ![c] = Idle]
                /\ UNCHANGED << sessions, issued, granted >>
           ELSE /\ issued < Len(SessionTokens)
                /\ issued' = issued + 1
                /\ LET x == Mgr_new_session(SessionTokens[issued + 1], "demo",
                                            ttl_hours, key, now) IN
                   /\ sessions' = sessions \cup {x}
                   /\ granted' = [granted EXCEPT ![x.token] = x.expires_at]
                   /\ reqs' = [reqs EXCEPT ![c] =
                                 [op |-> "create", token |-> x.token, key |-> key,
                                  found |-> FALSE, ttl_hours |-> ttl_hours]]
                /\ last' = NoResponse
  /\ UNCHANGED << auth, now, del_true, log, slack, monitor, server, driverVars >>

\* POST /sessions, from the connectivity test on (admin_api.py:78-103).
CreateFinish(c) ==
  /\ reqs[c].op = "create"
  /\ \E probe \in {"ok", "raises"} :
       last' = CreateResponse(c, reqs[c].key, reqs[c].ttl_hours, reqs[c].token,
                              Mgr_get(sessions, reqs[c].token, now), probe)
  /\ reqs' = [reqs EXCEPT ![c] = Idle]
  /\ UNCHANGED << auth, sessions, issued, now, granted, del_true, log, slack, monitor, server, driverVars >>

\* GET /sessions and GET /sessions/mine (admin_api.py:118-142).
List(c) ==
  /\ CanStart(c)
  /\ \E key \in ApiKeys, op \in {"list", "mine"} :
       last' = IF VerifyAdminToken(auth, key)
                 THEN ListResponse(op, c, key, sessions, now)
                 ELSE Unauthorized(op, c, key)
  /\ reqs' = [reqs EXCEPT ![c] = Idle]
  /\ UNCHANGED << auth, sessions, issued, now, granted, del_true, log, slack, monitor, server, driverVars >>

\* DELETE /sessions/{token}, to the get (admin_api.py:144-152).
DeleteStart(c) ==
  /\ CanStart(c)
  /\ \E key \in ApiKeys, tok \in AdminTokens :
       IF ~VerifyAdminToken(auth, key)
         THEN /\ last' = Unauthorized("delete", c, key)
              /\ reqs' = [reqs EXCEPT ![c] = Idle]
         ELSE /\ reqs' = [reqs EXCEPT ![c] =
                            [op |-> "delete", token |-> tok, key |-> key,
                             found |-> Mgr_get(sessions, tok, now) # NoSession,
                             ttl_hours |-> 0]]
              /\ last' = NoResponse
  /\ UNCHANGED << auth, sessions, issued, now, granted, del_true, log, slack, monitor, server, driverVars >>

\* DELETE /sessions/{token}, from the delete on (admin_api.py:153-169).
DeleteFinish(c) ==
  /\ reqs[c].op = "delete"
  /\ LET d == DeleteOutcome(sessions, reqs[c].found, reqs[c].token, now)
         r == DeleteResponse(c, reqs[c].key, reqs[c].token, d.removed) IN
     /\ sessions' = d.store
     /\ last' = r
     /\ del_true' = IF r.deleted
                      THEN [del_true EXCEPT ![r.token] = @ + 1]
                      ELSE del_true
  /\ reqs' = [reqs EXCEPT ![c] = Idle]
  /\ UNCHANGED << auth, issued, now, granted, log, slack, monitor, server, driverVars >>

\* Time passes, between the handlers and between the calls a handler makes.
Tick ==
  /\ now < MaxTime
  /\ now' = now + 1
  /\ last' = NoResponse
  /\ UNCHANGED << auth, sessions, issued, reqs, granted, del_true, log, slack, monitor, server, driverVars >>

\* ------------------------------------------------- tool-call monitoring
\* A value passed to a tool: a text, or None (a JSON null in the arguments
\* the model produced).
Str(text) == [type |-> "str", text |-> text]
NoneValue == [type |-> "NoneType", text |-> << >>]

\* The run attribute of a tool: the tool's own run, or a logged_run that
\* wraps the run it was bound to.
OriginalRun(t) == [kind |-> "run", tool |-> t]

Wrapper(tool_name, agent_name, orig_run) ==
  [kind |-> "logged_run", tool_name |-> tool_name, agent_name |-> agent_name,
   orig_run |-> orig_run]

\* The tools of the coordinator and of its sub-agents.
HealthTool == <<"kind-k8s-ai_kubernetes_resource_health">>
PostTool == <<"slack_post_message">>
MonTools == { AnalyzerTool, SlackTool, PlainTool, HealthTool, PostTool }

\* What a call did: the original runs invoked, with their arguments, and
\* how the call ended.
Returns(result) == [kind |-> "return", value |-> result]
Raises(text) == [kind |-> "raise", value |-> text]
NotCalled == [kind |-> "none", value |-> << >>]

\* Monitoring not set up, no call made.
MonitorOff ==
  [ pc |-> "off", coordinator |-> << >>, sub |-> << >>,
    run |-> [t \in MonTools |-> OriginalRun(t)],
    tool |-> << >>, args |-> << >>, kwargs |-> << >>, outcome |-> NotCalled,
    invoked |-> << >>, out |-> NotCalled ]

\* ------------------------------------------------- the demo's server manager
\* range(30) (test_demo_with_screenshots.py:97)
MaxPolls == 30

\* Processes the manager can launch, in launch order, and the server that
\* somebody else runs on the same port.
OurProcs == <<"p1", "p2">>
ForeignProc == "e1"
NoProc == "none"

\* The manager after __init__ (test_demo_with_screenshots.py:56-59), with
\* nothing listening on the port.
ServerOff ==
  [ pc |-> "off", server_process |-> NoProc, started_by_us |-> FALSE,
    alive |-> {}, port |-> NoProc, launched |-> 0, polls |-> 0,
    op |-> "none", ret |-> None, found |-> NoProc, terminated |-> {} ]

\* ------------------------------------------------------------------- Init
\* The components around the driver before anything has happened in them.
ExtIdle ==
  /\ log = {}
  /\ auth = NoAuth
  /\ AdminIdle
  /\ slack = SlackOff
  /\ monitor = MonitorOff
  /\ server = ServerOff

\* A block an earlier run injected, as a persisted sub-agent history holds it.
OldBlock(tok) == SystemMessage(SessionContextContent("kind-a", tok))

InitHists == { << >>, << OldBlock("tokA") >>, << OldBlock("tokB"), ChatMessage >> }

Init ==
  /\ pc = "issue"
  /\ clusters \in { << >>, <<"kind-a">>, <<"kind-b", "kind-a">> }
  /\ check_interval \in {-1, 0, 60}
  /\ tool_dict \in ToolDicts
  /\ \E h0 \in InitHists :
       hist = [i \in 1..Len(tool_dict) |->
                 IF tool_dict[i].agent = "ok" THEN h0 ELSE << >>]
  /\ hist0 = hist
  /\ coord_msgs = <<"system">>
  /\ cluster_context = None
  /\ session_token = None
  /\ injected_count = 0
  /\ inject_runs = 0
  /\ admin \in AdminStates
  /\ expired = FALSE
  /\ issue_calls = 0
  /\ cycle = 0
  /\ all_raised = TRUE
  /\ call = "none"
  /\ response = None
  /\ exit_cause = None
  /\ saved = FALSE
  /\ sleeps = << >>
  /\ ExtIdle

\* ---------------------------------------------------------------- actions
\* Mutant: the session is issued for the last configured cluster.
Issue_last_cluster ==
  /\ pc = "issue"
  /\ IF clusters = << >>
       THEN /\ cluster_context' = None
            /\ session_token' = None
            /\ pc' = "inject"
            /\ UNCHANGED issue_calls
       ELSE \E tok \in Tokens :
              LET r == create_k8s_ai_session(admin, tok) IN
              /\ cluster_context' = clusters[Len(clusters)]
              /\ issue_calls' = issue_calls + 1
              /\ IF r.raised
                   THEN /\ pc' = "raised"
                        /\ UNCHANGED session_token
                   ELSE /\ pc' = "inject"
                        /\ session_token' = r.ret
  /\ UNCHANGED << clusters, check_interval, tool_dict, hist, hist0, coord_msgs,
                  injected_count, inject_runs, admin, expired, cycle, all_raised, call,
                  response, exit_cause, saved, sleeps >>
  /\ UNCHANGED extVars

\* main.py:146-167: no clusters, or a session for the first cluster.
Issue ==
  /\ pc = "issue"
  /\ IF clusters = << >>
       THEN /\ cluster_context' = None
            /\ session_token' = None
            /\ pc' = "inject"
            /\ UNCHANGED issue_calls
       ELSE \E tok \in Tokens :
              LET r == create_k8s_ai_session(admin, tok) IN
              /\ cluster_context' = clusters[1]
              /\ issue_calls' = issue_calls + 1
              /\ IF r.raised
                   THEN /\ pc' = "raised"
                        /\ UNCHANGED session_token
                   ELSE /\ pc' = "inject"
                        /\ session_token' = r.ret
  /\ UNCHANGED << clusters, check_interval, tool_dict, hist, hist0, coord_msgs,
                  injected_count, inject_runs, admin, expired, cycle, all_raised, call,
                  response, exit_cause, saved, sleeps >>
  /\ UNCHANGED extVars

\* main.py:174-225: the injection step; next is where control goes on.
InjectStep(next) ==
  /\ inject_runs' = inject_runs + 1
  /\ IF session_token # None /\ cluster_context # None
       THEN LET r == InjectLoop(1, hist, 0, session_token, cluster_context) IN
            /\ hist' = r.hist
            /\ injected_count' = r.count
            /\ pc' = IF r.raised THEN "raised" ELSE next
       ELSE /\ pc' = next
            /\ UNCHANGED << hist, injected_count >>

Inject ==
  /\ pc = "inject"
  /\ InjectStep("loop")
  /\ UNCHANGED << clusters, check_interval, tool_dict, hist0, coord_msgs,
                  cluster_context, session_token, admin, expired, issue_calls,
                  cycle, all_raised, call, response, exit_cause, saved, sleeps >>
  /\ UNCHANGED extVars

\* Mutant: a cycle begins on a timer, whether or not the sleep of the cycle
\* before is over.
BeginCycle_on_timer ==
  /\ pc \in {"loop", "sleep"}
  /\ cycle < MaxCycles
  /\ cycle' = cycle + 1
  /\ call' = "inflight"
  /\ pc' = "send_message"
  /\ UNCHANGED << clusters, check_interval, tool_dict, hist, hist0, coord_msgs,
                  cluster_context, session_token, injected_count, inject_runs, admin,
                  expired, issue_calls, all_raised, response, exit_cause, saved,
                  sleeps >>
  /\ UNCHANGED extVars

\* main.py:228-243: a cycle begins and calls coordinator.send_message.
BeginCycle ==
  /\ pc = "loop"
  /\ cycle < MaxCycles
  /\ cycle' = cycle + 1
  /\ call' = "inflight"
  /\ pc' = "send_message"
  /\ UNCHANGED << clusters, check_interval, tool_dict, hist, hist0, coord_msgs,
                  cluster_context, session_token, injected_count, inject_runs, admin,
                  expired, issue_calls, all_raised, response, exit_cause, saved, sleeps >>
  /\ UNCHANGED extVars

\* The effect of a coordinator call on the histories: k messages on the
\* coordinator's, and a message on the history of sub-agent who (0: none).
CallEffect(k, who) ==
  /\ Len(coord_msgs) + k <= MaxMsgs
  /\ coord_msgs' = coord_msgs \o Appended(k)
  /\ IF who = 0
       THEN UNCHANGED hist
       ELSE /\ tool_dict[who].agent = "ok"
            /\ Len(hist[who]) < MaxSubMsgs
            /\ hist' = [hist EXCEPT ![who] = Append(@, ChatMessage)]

\* main.py:243: the call returns a response.
SendReturn ==
  /\ pc = "send_message"
  /\ \E k \in 0..MaxAppend, who \in 0..Len(tool_dict) : CallEffect(k, who)
  /\ \E resp \in {"text", None} : response' = resp
  /\ call' = "returned"
  /\ all_raised' = FALSE
  /\ pc' = "log_response"
  /\ UNCHANGED << clusters, check_interval, tool_dict, hist0, cluster_context,
                  session_token, injected_count, inject_runs, admin, expired, issue_calls,
                  cycle, exit_cause, saved, sleeps >>
  /\ UNCHANGED extVars

\* main.py:243, 260: the call raises an Exception.
SendRaise ==
  /\ pc = "send_message"
  /\ \E k \in 0..MaxAppend, who \in 0..Len(tool_dict) : CallEffect(k, who)
  /\ call' = "raised"
  /\ pc' = "except"
  /\ UNCHANGED << clusters, check_interval, tool_dict, hist0, cluster_context,
                  session_token, injected_count, inject_runs, admin, expired, issue_calls,
                  cycle, all_raised, response, exit_cause, saved, sleeps >>
  /\ UNCHANGED extVars

\* main.py:244-247: response[:500] raises TypeError when the response is None.
LogResponse ==
  /\ pc = "log_response"
  /\ pc' = IF response = None THEN "except" ELSE "reset"
  /\ UNCHANGED << clusters, check_interval, tool_dict, hist, hist0, coord_msgs,
                  cluster_context, session_token, injected_count, inject_runs, admin,
                  expired, issue_calls, cycle, all_raised, call, response,
                  exit_cause, saved, sleeps >>
  /\ UNCHANGED extVars

\* main.py:249-258: the reset step.
Reset ==
  /\ pc = "reset"
  /\ coord_msgs' = ResetHistory(coord_msgs)
  /\ pc' = "sleep"
  /\ UNCHANGED << clusters, check_interval, tool_dict, hist, hist0,
                  cluster_context, session_token, injected_count, inject_runs, admin,
                  expired, issue_calls, cycle, all_raised, call, response,
                  exit_cause, saved, sleeps >>
  /\ UNCHANGED extVars

\* Mutant: a failed cycle is tried again at once.
Except_retries ==
  /\ pc = "except"
  /\ pc' = "loop"
  /\ UNCHANGED << clusters, check_interval, tool_dict, hist, hist0, coord_msgs,
                  cluster_context, session_token, injected_count, inject_runs, admin,
                  expired, issue_calls, cycle, all_raised, call, response,
                  exit_cause, saved, sleeps >>
  /\ UNCHANGED extVars

\* main.py:260-263: the handler of a failed cycle.
Except ==
  /\ pc = "except"
  /\ pc' = "sleep"
  /\ UNCHANGED << clusters, check_interval, tool_dict, hist, hist0, coord_msgs,
                  cluster_context, session_token, injected_count, inject_runs, admin,
                  expired, issue_calls, cycle, all_raised, call, response,
                  exit_cause, saved, sleeps >>
  /\ UNCHANGED extVars

\* main.py:266: the sleep between cycles; its ValueError leaves the loop.
Sleep ==
  /\ pc = "sleep"
  /\ IF SleepRaises(check_interval)
       THEN /\ exit_cause' = "ValueError"
            /\ pc' = "finally"
       ELSE /\ pc' = "loop"
            /\ UNCHANGED exit_cause
  /\ sleeps' = IF SleepRaises(check_interval) THEN sleeps
                ELSE Append(sleeps, SleepLength(check_interval))
  /\ UNCHANGED << clusters, check_interval, tool_dict, hist, hist0, coord_msgs,
                  cluster_context, session_token, injected_count, inject_runs, admin,
                  expired, issue_calls, cycle, all_raised, call, response, saved >>
  /\ UNCHANGED extVars

\* main.py:268-269: KeyboardInterrupt is raised wherever the driver is inside
\* the try block; a coordinator call in flight is abandoned.
KeyboardInterrupt ==
  /\ pc \in LoopPcs
  /\ exit_cause' = "KeyboardInterrupt"
  /\ call' = IF pc \in {"send_message", "hung"} THEN "aborted" ELSE call
  /\ pc' = "finally"
  /\ UNCHANGED << clusters, check_interval, tool_dict, hist, hist0, coord_msgs,
                  cluster_context, session_token, injected_count, inject_runs, admin,
                  expired, issue_calls, cycle, all_raised, response, saved, sleeps >>
  /\ UNCHANGED extVars

\* main.py:270-272: the session is saved; start_coordinator returns after a
\* KeyboardInterrupt, any other exception goes on to main (main.py:339-341).
Finally ==
  /\ pc = "finally"
  /\ saved' = SavesOnExit(exit_cause)
  /\ pc' = IF exit_cause = "KeyboardInterrupt" THEN "returned" ELSE "raised"
  /\ UNCHANGED << clusters, check_interval, tool_dict, hist, hist0, coord_msgs,
                  cluster_context, session_token, injected_count, inject_runs, admin,
                  expired, issue_calls, cycle, all_raised, call, response,
                  exit_cause, sleeps >>
  /\ UNCHANGED extVars

\* The session's 24 hours pass (main.py:68) while the loop runs.
Expire ==
  /\ pc \in LoopPcs
  /\ session_token # None
  /\ ~expired
  /\ expired' = TRUE
  /\ UNCHANGED << pc, clusters, check_interval, tool_dict, hist, hist0,
                  coord_msgs, cluster_context, session_token, injected_count, inject_runs,
                  admin, issue_calls, cycle, all_raised, call, response,
                  exit_cause, saved, sleeps >>
  /\ UNCHANGED extVars

\* The admin API (or kubectl) comes back while the loop runs.
AdminRecovers ==
  /\ pc \in LoopPcs
  /\ admin # "ok"
  /\ admin' = "ok"
  /\ UNCHANGED << pc, clusters, check_interval, tool_dict, hist, hist0,
                  coord_msgs, cluster_context, session_token, injected_count, inject_runs,
                  expired, issue_calls, cycle, all_raised, call, response,
                  exit_cause, saved, sleeps >>
  /\ UNCHANGED extVars

Next ==
  \/ Issue
  \/ Inject
  \/ BeginCycle
  \/ SendReturn
  \/ SendRaise
  \/ LogResponse
  \/ Reset
  \/ Except
  \/ Sleep
  \/ KeyboardInterrupt
  \/ Finally
  \/ Expire
  \/ AdminRecovers

Spec == Init /\ [][Next]_vars

\* ------------------------------------------------ the loop, with fairness
\* main.py:243: coordinator.send_message is called without a timeout; a
\* dependency of the call that never answers leaves the driver inside it.
SendHangs ==
  /\ pc = "send_message"
  /\ pc' = "hung"
  /\ UNCHANGED << clusters, check_interval, tool_dict, hist, hist0, coord_msgs,
                  cluster_context, session_token, injected_count, inject_runs, admin,
                  expired, issue_calls, cycle, all_raised, call, response,
                  exit_cause, saved, sleeps >>
  /\ UNCHANGED extVars

InitLive ==
  /\ Init
  /\ clusters = << "kind-a" >>
  /\ check_interval = 60
  /\ tool_dict = << Tool(AnalyzerTool, "ok"), Tool(SlackTool, "ok") >>
  /\ hist0 = [i \in 1..Len(tool_dict) |-> << >>]

LiveNext ==
  \/ Next
  \/ SendHangs

\* The driver's own steps are taken when they can be, and a call that has not
\* hung comes back; the interrupt, the expiry and the admin API are the
\* environment's.
Fairness ==
  /\ WF_vars(Issue)
  /\ WF_vars(Inject)
  /\ WF_vars(BeginCycle)
  /\ WF_vars(SendReturn \/ SendRaise)
  /\ WF_vars(LogResponse)
  /\ WF_vars(Reset)
  /\ WF_vars(Except)
  /\ WF_vars(Sleep)
  /\ WF_vars(Finally)

LiveSpec == InitLive /\ [][LiveNext]_vars /\ Fairness

\* ------------------------------------------- the injection step, repeated
\* The injection step of main.py:174-223 run again and again on the same
\* coordinator with the same session token and cluster, the sub-agents'
\* conversations going on in between.
InitInject ==
  /\ pc = "inject"
  /\ cluster_context \in Contexts
  /\ clusters = << cluster_context >>
  /\ session_token \in Tokens
  /\ check_interval = 60
  /\ tool_dict \in InjectToolDicts
  /\ \E h0 \in InitHists :
       hist = [i \in 1..Len(tool_dict) |->
                 IF tool_dict[i].agent = "ok" THEN h0 ELSE << >>]
  /\ hist0 = hist
  /\ coord_msgs = <<"system">>
  /\ injected_count = 0
  /\ inject_runs = 0
  /\ admin = "ok"
  /\ expired = FALSE
  /\ issue_calls = 1
  /\ cycle = 0
  /\ all_raised = TRUE
  /\ call = "none"
  /\ response = None
  /\ exit_cause = None
  /\ saved = FALSE
  /\ sleeps = << >>
  /\ ExtIdle

InjectAgain ==
  /\ pc = "inject"
  /\ inject_runs < MaxRuns
  /\ InjectStep("inject")
  /\ UNCHANGED << clusters, check_interval, tool_dict, hist0, coord_msgs,
                  cluster_context, session_token, admin, expired, issue_calls,
                  cycle, all_raised, call, response, exit_cause, saved, sleeps >>
  /\ UNCHANGED extVars

\* A sub-agent's conversation adds a message to its history.
SubAgentChat ==
  /\ pc = "inject"
  /\ \E who \in 1..Len(tool_dict) :
       /\ tool_dict[who].agent = "ok"
       /\ Len(hist[who]) < MaxSubMsgs
       /\ hist' = [hist EXCEPT ![who] = Append(@, ChatMessage)]
  /\ UNCHANGED << pc, clusters, check_interval, tool_dict, hist0, coord_msgs,
                  cluster_context, session_token, injected_count, inject_runs,
                  admin, expired, issue_calls, cycle, all_raised, call,
                  response, exit_cause, saved, sleeps >>
  /\ UNCHANGED extVars

InjectNext ==
  \/ InjectAgain
  \/ SubAgentChat

InjectSpec == InitInject /\ [][InjectNext]_vars

\* ------------------------------------------------------------ log records
\* A logged text is a sequence of pieces: literal text, or the first len
\* characters of a session token.
Lit(text, len) == [kind |-> "lit", text |-> text, len |-> len]

\* Characters of a session token, as the session manager generates it.
TokenLen == 43

Tok(t, len) == [kind |-> "tok", text |-> t, len |-> len]

\* The whole token as a text.
TokenText(t) == << Tok(t, TokenLen) >>

\* text[:n]
RECURSIVE Take(_, _)
Take(text, n) ==
  IF text = << >> \/ n <= 0
    THEN << >>
    ELSE IF Head(text).len <= n
      THEN << Head(text) >> \o Take(Tail(text), n - Head(text).len)
      ELSE << [Head(text) EXCEPT !.len = n] >>

\* main.py:76: the record of a created session.
CreatedLogLine(ctx, t) ==
  << Lit("Created session for ", 20), Lit(ctx, 6), Lit(": ", 2) >>
    \o Take(TokenText(t), 20) \o << Lit("...", 3) >>

\* main.py:215: the record of an injection.
InjectedLogLine(t) ==
  << Lit("   Session token: ", 18) >> \o Take(TokenText(t), 30) \o << Lit("...", 3) >>

\* The message a sub-agent sends to a diagnostic tool, after the template of
\* main.py:201.
HealthMessage(t) ==
  << Lit("kubernetes_resource_health: session_token=", 42), Tok(t, TokenLen),
     Lit(", resource_type=pod, namespace=all", 34) >>

PlainMessage == << Lit("Perform a health check of the cluster", 37) >>

\* A tool call through a wrapper of setup_tool_call_monitoring: the agent
\* and tool it was wrapped for, the positional and the keyword arguments.
KwArg(key, value) == [key |-> key, value |-> value]

ToolCall(agent, tool, args, kwargs) ==
  [agent |-> agent, tool |-> tool, args |-> args, kwargs |-> kwargs]

\* The calls a health-check cycle makes: the coordinator delegates to the
\* Analyzer, the Analyzer calls the diagnostic tool as instructed, by keyword
\* or by position, and the Slack bot posts the report.
ToolCalls(t) ==
  { ToolCall("Coordinator", "agent_MAKDO_Analyzer", << >>,
             << KwArg("message", PlainMessage) >>),
    ToolCall("MAKDO_Analyzer", "kind-k8s-ai_kubernetes_resource_health", << >>,
             << KwArg("message", HealthMessage(t)) >>),
    ToolCall("MAKDO_Analyzer", "kind-k8s-ai_kubernetes_resource_health",
             << HealthMessage(t) >>, << >>),
    ToolCall("MAKDO_Slack_Bot", "slack_post_message", << >>,
             << KwArg("channel", << Lit("#makdo-devops", 13) >>),
                KwArg("text", << Lit("All pods healthy", 16) >>) >>) }

\* The results and the exception texts of the tools.
ToolResults == { << Lit("3 pods healthy", 14) >>, << Lit("connection refused", 18) >> }

\* f"{args}" and f"{kwargs}": every value, whole.
RECURSIVE ArgsText(_)
ArgsText(args) ==
  IF args = << >> THEN << >> ELSE Head(args) \o ArgsText(Tail(args))

RECURSIVE KwargsText(_)
KwargsText(kwargs) ==
  IF kwargs = << >>
    THEN << >>
    ELSE << Lit(Head(kwargs).key, Len(Head(kwargs).key)) >> \o Head(kwargs).value
           \o KwargsText(Tail(kwargs))

\* 'message' in kwargs, kwargs['message']
HasKey(kwargs, key) == \E i \in 1..Len(kwargs) : kwargs[i].key = key

Lookup(kwargs, key) ==
  kwargs[CHOOSE i \in 1..Len(kwargs) : kwargs[i].key = key].value

\* logged_run (main.py:100-117): the records of one call, which returns
\* result or raises an exception with that text.
LoggedRunLines(c, raises, result) ==
  { << Lit("Calling tool: ", 14), Lit(c.agent, Len(c.agent)), Lit(c.tool, Len(c.tool)) >>,
    << Lit("   Args: ", 9) >> \o ArgsText(c.args),
    << Lit("   Kwargs: ", 11) >> \o KwargsText(c.kwargs) }
  \cup ( IF HasKey(c.kwargs, "message")
           THEN { << Lit("   A2A Message: ", 16) >>
                    \o Take(Lookup(c.kwargs, "message"), 200) \o << Lit("...", 3) >> }
           ELSE {} )
  \cup ( IF raises
           THEN { << Lit("Tool failed: ", 13), Lit(c.tool, Len(c.tool)) >> \o result }
           ELSE { << Lit("Tool completed", 14), Lit(c.tool, Len(c.tool)) >>,
                  << Lit("   Result preview: ", 19) >> \o Take(result, 300)
                    \o << Lit("...", 3) >> } )

\* A record that holds a session token at full length.
HoldsFullToken(line) ==
  \E i \in 1..Len(line) : line[i].kind = "tok" /\ line[i].len >= TokenLen

\* The driver with a session issued and injected, its tools wrapped.
InitLog ==
  /\ pc = "loop"
  /\ cluster_context \in Contexts
  /\ clusters = << cluster_context >>
  /\ session_token \in Tokens
  /\ check_interval = 60
  /\ tool_dict = << Tool(AnalyzerTool, "ok"), Tool(SlackTool, "ok") >>
  /\ hist = [i \in 1..Len(tool_dict) |-> << >>]
  /\ hist0 = hist
  /\ coord_msgs = <<"system">>
  /\ injected_count = 0
  /\ inject_runs = 0
  /\ admin = "ok"
  /\ expired = FALSE
  /\ issue_calls = 1
  /\ cycle = 0
  /\ all_raised = TRUE
  /\ call = "none"
  /\ response = None
  /\ exit_cause = None
  /\ saved = FALSE
  /\ sleeps = << >>
  /\ ExtIdle

\* main.py:76
LogSessionCreated ==
  /\ log' = log \cup { CreatedLogLine(cluster_context, session_token) }
  /\ UNCHANGED << driverVars, adminVars, slack, monitor, server >>

\* main.py:214-215
LogInjected ==
  /\ log' = log \cup { InjectedLogLine(session_token) }
  /\ UNCHANGED << driverVars, adminVars, slack, monitor, server >>

\* main.py:100-117
LoggedRun ==
  /\ \E c \in ToolCalls(session_token), raises \in BOOLEAN, result \in ToolResults :
       log' = log \cup LoggedRunLines(c, raises, result)
  /\ UNCHANGED << driverVars, adminVars, slack, monitor, server >>

LogNext ==
  \/ LogSessionCreated
  \/ LogInjected
  \/ LoggedRun

LogSpec == InitLog /\ [][LogNext]_vars

\* ---------------------------------------------------------- the admin API
\* The driver's variables while the admin API is looked at on its own.
DriverOff ==
  /\ pc = "off"
  /\ clusters = << >>
  /\ check_interval = 60
  /\ tool_dict = << >>
  /\ hist = << >>
  /\ hist0 = << >>
  /\ coord_msgs = << >>
  /\ cluster_context = None
  /\ session_token = None
  /\ injected_count = 0
  /\ inject_runs = 0
  /\ admin = "ok"
  /\ expired = FALSE
  /\ issue_calls = 0
  /\ cycle = 0
  /\ all_raised = TRUE
  /\ call = "none"
  /\ response = None
  /\ exit_cause = None
  /\ saved = FALSE
  /\ sleeps = << >>

InitAdmin ==
  /\ DriverOff
  /\ log = {}
  /\ auth \in AuthConfigs
  /\ AdminIdle
  /\ slack = SlackOff
  /\ monitor = MonitorOff
  /\ server = ServerOff

AdminNext ==
  \/ \E c \in Clients : Arrive(c)
  \/ \E c \in Clients : CreateStart(c)
  \/ \E c \in Clients : CreateFinish(c)
  \/ \E c \in Clients : List(c)
  \/ \E c \in Clients : DeleteStart(c)
  \/ \E c \in Clients : DeleteFinish(c)
  \/ Tick

AdminSpec == InitAdmin /\ [][AdminNext]_vars

\* --------------------------------------------------------- the Slack tool
InitSlack ==
  /\ DriverOff
  /\ log = {}
  /\ auth = NoAuth
  /\ AdminIdle
  /\ \E variant \in SlackVariants, bot_token \in BOOLEAN, channel \in Channels :
       slack = [SlackOff EXCEPT !.pc = "load", !.variant = variant,
                                !.bot_token = bot_token, !.channel = channel]
  /\ monitor = MonitorOff
  /\ server = ServerOff

SlackNext ==
  \/ SlackImport
  \/ SlackPostMessage

SlackSpec == InitSlack /\ [][SlackNext]_vars

\* ------------------------------------------------- tool-call monitoring
\* A sub-agent behind a coordinator tool: whether the tool has an .agent
\* attribute, and that agent's tool_dict in insertion order.
SubAgent(has_agent, tools) == [has_agent |-> has_agent, tool_dict |-> tools]

\* The coordinator's tool_dict and, for each of its tools, what is behind it.
\* In the second layout the coordinator and the Analyzer hold the same
\* kubectl tool object.
MonLayouts ==
  { [ coordinator |-> << AnalyzerTool, SlackTool >>,
      sub |-> << SubAgent(TRUE, << HealthTool, PlainTool >>),
                 SubAgent(TRUE, << PostTool >>) >> ],
    [ coordinator |-> << AnalyzerTool, PlainTool >>,
      sub |-> << SubAgent(TRUE, << PlainTool, HealthTool >>),
                 SubAgent(FALSE, << >>) >> ] }

\* The arguments of a call and the ways the tool's own run ends.
MonArgs == { << >>, << Str(PlainMessage) >> }

MonKwargs ==
  { << >>,
    << KwArg("message", Str(PlainMessage)) >>,
    << KwArg("message", NoneValue) >>,
    << KwArg("channel", Str(<< Lit("#makdo-devops", 13) >>)),
       KwArg("text", Str(<< Lit("All pods healthy", 16) >>)) >> }

MonOutcomes == { Returns(r) : r \in ToolResults } \cup { Raises(r) : r \in ToolResults }

\* The run a logged_run is bound to: the default argument
\* _orig_run=original_run is evaluated when the wrapper is defined
\* (main.py:95, 98).
BoundRun(run, names, i) == run[names[i]]

\* wrap_agent_tools (main.py:92-119) from tool i of the agent on.
RECURSIVE WrapFrom(_, _, _, _)
WrapFrom(i, run, names, agent_name) ==
  IF i > Len(names)
    THEN run
    ELSE WrapFrom(i + 1,
                  [run EXCEPT ![names[i]] =
                     Wrapper(names[i], agent_name, BoundRun(run, names, i))],
                  names, agent_name)

WrapAgentTools(run, names, agent_name) == WrapFrom(1, run, names, agent_name)

\* The loop of main.py:125-130 from coordinator tool i on.
RECURSIVE WrapSubAgents(_, _, _, _)
WrapSubAgents(i, run, coordinator, sub) ==
  IF i > Len(coordinator)
    THEN run
    ELSE IF StartsWithAgent(coordinator[i]) /\ sub[i].has_agent
      THEN WrapSubAgents(i + 1,
                         WrapAgentTools(run, sub[i].tool_dict, AgentName(coordinator[i])),
                         coordinator, sub)
      ELSE WrapSubAgents(i + 1, run, coordinator, sub)

\* setup_tool_call_monitoring (main.py:87-130)
SetupToolCallMonitoring(run, coordinator, sub) ==
  WrapSubAgents(1, WrapAgentTools(run, coordinator, <<"Coordinator">>), coordinator, sub)

\* kwargs['message'][:200] (main.py:108) raises TypeError for a value that
\* cannot be sliced.
Sliceable(v) == v.type = "str"

TypeError == Raises(<< Lit("'NoneType' object is not subscriptable", 38) >>)

\* A call of a run attribute (main.py:98-117 for a logged_run): the original
\* runs it invokes and how it ends, when the tool's own run ends as outcome.
RECURSIVE CallRun(_, _, _, _)
CallRun(run, args, kwargs, outcome) ==
  IF run.kind = "run"
    THEN [ invoked |-> << [tool |-> run.tool, args |-> args, kwargs |-> kwargs] >>,
           out |-> outcome ]
    ELSE IF HasKey(kwargs, "message") /\ ~Sliceable(Lookup(kwargs, "message"))
      THEN [ invoked |-> << >>, out |-> TypeError ]
      ELSE CallRun(run.orig_run, args, kwargs, outcome)

\* The tools an agent of the layout can call.
Callable(coordinator, sub) ==
  { coordinator[i] : i \in 1..Len(coordinator) }
    \cup UNION { { sub[i].tool_dict[j] : j \in 1..Len(sub[i].tool_dict) } :
                 i \in 1..Len(sub) }

InitMonitor ==
  /\ DriverOff
  /\ log = {}
  /\ auth = NoAuth
  /\ AdminIdle
  /\ slack = SlackOff
  /\ server = ServerOff
  /\ \E l \in MonLayouts :
       monitor = [MonitorOff EXCEPT !.pc = "created", !.coordinator = l.coordinator,
                                    !.sub = l.sub]

\* main.py:333: setup_tool_call_monitoring(coordinator)
MonitorSetup ==
  /\ monitor.pc = "created"
  /\ monitor' = [monitor EXCEPT
       !.pc = "monitored",
       !.run = SetupToolCallMonitoring(monitor.run, monitor.coordinator, monitor.sub)]
  /\ UNCHANGED << driverVars, adminVars, log, slack, server >>

\* An agent calls tool.run(*args, **kwargs) on one of its tools.
MonitorCall ==
  /\ monitor.pc \in {"monitored", "called"}
  /\ \E t \in Callable(monitor.coordinator, monitor.sub), args \in MonArgs,
        kwargs \in MonKwargs, outcome \in MonOutcomes :
       LET r == CallRun(monitor.run[t], args, kwargs, outcome)
       IN monitor' = [monitor EXCEPT
            !.pc = "called", !.tool = t, !.args = args, !.kwargs = kwargs,
            !.outcome = outcome, !.invoked = r.invoked, !.out = r.out]
  /\ UNCHANGED << driverVars, adminVars, log, slack, server >>

MonitorNext ==
  \/ MonitorSetup
  \/ MonitorCall

MonitorSpec == InitMonitor /\ [][MonitorNext]_vars

\* ------------------------------------------------- the demo's server manager
\* server: pc is "idle" between the manager's calls and "polling" inside the
\* wait loop of start_server; alive are the running processes and port the one
\* that answers on host:port; op is the step last taken, ret the value the
\* last start_server returned, found the server start_server last found
\* already running, terminated the processes stop_server ended.
Launched(s) == { OurProcs[i] : i \in 1..s.launched }

\* is_server_running (test_demo_with_screenshots.py:62-69): the GET answers
\* 200 only when a server holds the port, and any exception (a timeout after
\* two seconds included) reads as not running.
IsServerRunning(s) == IF s.port = NoProc THEN {FALSE} ELSE {TRUE, FALSE}

\* Mutant: stop_server ends whatever serves the port.
stop_server_whoever_serves(s) ==
  IF s.port # NoProc
    THEN [s EXCEPT !.alive = @ \ {s.port}, !.port = NoProc,
                   !.terminated = @ \cup {s.port}]
    ELSE s

\* stop_server (test_demo_with_screenshots.py:111-125): terminate(), and
\* kill() when the process has not ended after five seconds; on a process
\* that has already ended terminate() does nothing.
stop_server(s) ==
  IF s.server_process # NoProc /\ s.started_by_us /\ s.server_process \in s.alive
    THEN [s EXCEPT !.alive = @ \ {s.server_process},
                   !.port = IF @ = s.server_process THEN NoProc ELSE @,
                   !.terminated = @ \cup {s.server_process}]
    ELSE s

InitServer ==
  /\ DriverOff
  /\ log = {}
  /\ auth = NoAuth
  /\ AdminIdle
  /\ slack = SlackOff
  /\ monitor = MonitorOff
  /\ server = [ServerOff EXCEPT !.pc = "idle"]

\* start_server up to the wait loop (test_demo_with_screenshots.py:71-94):
\* a server found running is left alone; otherwise Popen launches the next
\* process, or raises and start_server returns False.
StartServer ==
  /\ server.pc = "idle"
  /\ \E seen \in IsServerRunning(server) :
       IF seen
         THEN server' = [server EXCEPT !.op = "start", !.ret = "True", !.found = server.port]
         ELSE \/ server' = [server EXCEPT !.op = "start", !.ret = "False", !.found = NoProc]
              \/ /\ server.launched < Len(OurProcs)
                 /\ server' = [server EXCEPT
                      !.server_process = OurProcs[server.launched + 1],
                      !.started_by_us = TRUE,
                      !.alive = @ \cup {OurProcs[server.launched + 1]},
                      !.launched = @ + 1,
                      !.pc = "polling", !.polls = 0,
                      !.op = "start", !.ret = None, !.found = NoProc]
  /\ UNCHANGED << driverVars, adminVars, log, slack, monitor >>

\* One round of the wait loop (test_demo_with_screenshots.py:97-105): sleep a
\* second and look; after the last round stop_server() and return False.
Poll ==
  /\ server.pc = "polling"
  /\ \E seen \in IsServerRunning(server) :
       IF seen
         THEN server' = [server EXCEPT !.pc = "idle", !.polls = @ + 1, !.op = "poll",
                                       !.ret = "True"]
         ELSE IF server.polls + 1 < MaxPolls
           THEN server' = [server EXCEPT !.polls = @ + 1, !.op = "poll"]
           ELSE server' = [stop_server(server) EXCEPT !.pc = "idle", !.polls = @ + 1,
                                                      !.op = "timeout", !.ret = "False"]
  /\ UNCHANGED << driverVars, adminVars, log, slack, monitor >>

\* stop_server called by the demo (test_demo_with_screenshots.py:639-641).
StopServer ==
  /\ server.pc = "idle"
  /\ server' = [stop_server(server) EXCEPT !.op = "stop"]
  /\ UNCHANGED << driverVars, adminVars, log, slack, monitor >>

\* Somebody else starts a k8s-ai server on the machine.
ForeignStarts ==
  /\ server.pc # "off"
  /\ ForeignProc \notin server.alive
  /\ server' = [server EXCEPT !.alive = @ \cup {ForeignProc}, !.op = "env"]
  /\ UNCHANGED << driverVars, adminVars, log, slack, monitor >>

\* A running server process gets the port and answers on it.
Binds ==
  /\ server.pc # "off"
  /\ server.port = NoProc
  /\ \E p \in server.alive : server' = [server EXCEPT !.port = p, !.op = "env"]
  /\ UNCHANGED << driverVars, adminVars, log, slack, monitor >>

\* A server process ends by itself.
Exits ==
  /\ server.pc # "off"
  /\ \E p \in server.alive :
       server' = [server EXCEPT !.alive = @ \ {p},
                                !.port = IF @ = p THEN NoProc ELSE @, !.op = "env"]
  /\ UNCHANGED << driverVars, adminVars, log, slack, monitor >>

ServerNext ==
  \/ StartServer
  \/ Poll
  \/ StopServer
  \/ ForeignStarts
  \/ Binds
  \/ Exits

ServerSpec == InitServer /\ [][ServerNext]_vars

\* ------------------------------------------------------------------ claims
\* The tools of the coordinator that carry a consuming sub-agent
\* (MAKDO_Analyzer, MAKDO_Fixer).
Consumers ==
  { i \in 1..Len(tool_dict) :
      tool_dict[i].name \in {AnalyzerTool, FixerTool} /\ tool_dict[i].agent = "ok" }

\* C1: at the start of every health-check cycle after the first, the
\* coordinator's history holds at most one carried-over message.
CE_C1_AtMostOneCarriedOver ==
  (pc = "loop" /\ cycle >= 1) => Len(coord_msgs) <= 1

\* C2: when coordinator.send_message raises in every cycle, the history is
\* of length 1 after each of those failed cycles.
CE_C2_ResetAfterFailedCycle ==
  (pc = "sleep" /\ check_interval >= 0 /\ cycle >= 1 /\ all_raised)
    => Len(coord_msgs) = 1

\* C3: the loop is left only on KeyboardInterrupt.
CE_C3_ExitOnlyOnInterrupt ==
  (exit_cause # None) => exit_cause = "KeyboardInterrupt"

\* C9: a cancellation that arrives while a coordinator call is in progress
\* does not abort that call.
CE_C9_CallRunsToCompletion ==
  call # "aborted"

\* C7: a later cycle that begins with the session absent or expired, while a
\* session could be issued, enters the Issuing step before Analyzing.
CE_C7_ReissueWhenAbsentOrExpired ==
  [][ ( /\ pc = "loop"
        /\ pc' = "send_message"
        /\ cycle >= 1
        /\ clusters # << >>
        /\ admin = "ok"
        /\ (session_token = None \/ expired) )
      => issue_calls' > issue_calls ]_vars

\* C10: whenever the loop is left, on cancellation or on any other exit
\* path, the coordinator's session has been saved when start_coordinator is
\* over, and control leaves the loop only through the finally clause.
Thm_C10_SavedOnEveryExit ==
  /\ [](((pc \in {"returned", "raised"}) /\ exit_cause # None) => saved)
  /\ [][ (pc \in LoopPcs /\ pc' \notin LoopPcs) => pc' = "finally" ]_vars

Wit_C10_SavedAfterSleepError ==
  pc = "raised" /\ exit_cause = "ValueError" /\ saved /\ cycle >= 1

\* C8: if session issuance fails for any reason, create_k8s_ai_session
\* returns no token without raising, the injection step changes no history,
\* and the driver goes on into the loop and calls the coordinator with no
\* session.
Thm_C8_DegradedMode ==
  [][ /\ (pc = "issue" /\ clusters # << >> /\ admin # "ok")
         => (pc' = "inject" /\ session_token' = None /\ issue_calls' = issue_calls + 1)
      /\ (pc = "inject" /\ session_token = None)
         => (pc' = "loop" /\ hist' = hist /\ injected_count' = 0)
      /\ (pc = "loop" /\ session_token = None /\ pc' # "loop")
         => ((pc' = "send_message" /\ call' = "inflight" /\ session_token' = None)
             \/ (pc' = "finally" /\ exit_cause' = "KeyboardInterrupt")) ]_vars

Wit_C8_CoordinatorCalledWithoutSession ==
  /\ pc = "send_message"
  /\ call = "inflight"
  /\ clusters # << >>
  /\ issue_calls = 1
  /\ session_token = None
  /\ hist = hist0

\* C6: a sub-agent's history never holds two different session tokens at
\* the same time; injecting a new token removes the older block.
Thm_C6_NeverTwoTokens ==
  \A i \in 1..Len(tool_dict) : Cardinality(TokensIn(hist[i])) <= 1

Wit_C6_OldTokenReplaced ==
  \E i \in Consumers :
    /\ inject_runs = 1
    /\ session_token # None
    /\ TokensIn(hist0[i]) # {}
    /\ session_token \notin TokensIn(hist0[i])
    /\ TokensIn(hist[i]) = {session_token}

\* C4 (as amended): when a session token was obtained at startup, every
\* cycle starts with exactly one injected block, carrying that token, in the
\* history of each consuming sub-agent the coordinator carries; when none was
\* obtained, the driver has injected nothing.
Thm_C4_OneBlockWhenSessionIssued ==
  (pc = "loop") =>
    \A i \in Consumers :
      IF session_token # None
        THEN /\ Len(InjectedBlocks(hist[i])) = 1
             /\ TokensIn(hist[i]) = {session_token}
        ELSE InjectedBlocks(hist[i]) = InjectedBlocks(hist0[i])

Wit_C4_SecondCycleStartsWithOneBlock ==
  /\ pc = "loop"
  /\ cycle >= 1
  /\ session_token # None
  /\ Cardinality(Consumers) = 2
  /\ \A i \in Consumers : Len(hist[i]) = 2 /\ Len(InjectedBlocks(hist[i])) = 1

\* C4 (as claimed): every cycle starts with exactly one injected block in
\* the history of each consuming sub-agent.
CE_C4_ExactlyOneBlockEveryCycle ==
  (pc = "loop") => \A i \in Consumers : Len(InjectedBlocks(hist[i])) = 1

\* The block's content holds the token and the literal call template with
\* namespace=all (main.py:198, 201).
HasToken(content, tok) == \E j \in 1..Len(content) : content[j] = tok

HasCallTemplate(content, tok) ==
  \E j \in 1..(Len(content) - 2) :
    /\ content[j] = " ... kubernetes_resource_health: session_token="
    /\ content[j + 1] = tok
    /\ content[j + 2] = ", resource_type=pod, namespace=all"

\* C5: however often the injection step has run with the same token and
\* cluster, each target sub-agent's history holds exactly one injected
\* block, and its content holds the token and the call template with
\* namespace=all.
Thm_C5_InjectionIdempotent ==
  (inject_runs >= 1 /\ pc # "raised") =>
    \A i \in Consumers :
      LET blocks == InjectedBlocks(hist[i]) IN
      /\ Len(blocks) = 1
      /\ HasToken(blocks[1].content, session_token)
      /\ HasCallTemplate(blocks[1].content, session_token)
      /\ TokensIn(hist[i]) = {session_token}

Wit_C5_SecondRunReplaced ==
  /\ inject_runs = 2
  /\ pc = "inject"
  /\ \E i \in Consumers :
       /\ hist0[i] # << >>
       /\ Len(InjectedBlocks(hist[i])) = 1
       /\ HasToken(InjectedBlocks(hist[i])[1].content, session_token)

\* C11: no log record holds a session token at full length.
CE_C11_NoFullTokenInLogs ==
  \A line \in log : ~HoldsFullToken(line)

\* C12: a creation whose connectivity probe raises is answered with status
\* "warning" and the token of a session that is kept and can be fetched; a
\* probe that succeeds gives "connected".
Thm_C12_ProbeFailureKeepsSession ==
  (last.op = "create" /\ last.probe # None) =>
    /\ last.success
    /\ last.token # None
    /\ last.status = (IF last.probe = "raises" THEN "warning" ELSE "connected")
    /\ Mgr_get(sessions, last.token, now) # NoSession

Wit_C12_WarningWithLiveSession ==
  /\ last.op = "create"
  /\ last.probe = "raises"
  /\ last.status = "warning"
  /\ Mgr_get(sessions, last.token, now) # NoSession

\* C13: a creation with a credential blob that cannot be parsed is answered
\* with success false and a configuration error, and stores no session.
Thm_C13_MalformedCredentialIsConfigurationError ==
  [][ (last'.op = "create" /\ last'.kubeconfig = "malformed" /\ last'.code = 200) =>
        /\ ~last'.success
        /\ last'.error = "Configuration error"
        /\ last'.token = None
        /\ sessions' = sessions
        /\ Mgr_list(sessions', FALSE, None, now') = Mgr_list(sessions, FALSE, None, now)
    ]_vars

Wit_C13_MalformedRejectedBesideSessions ==
  /\ last.op = "create"
  /\ last.kubeconfig = "malformed"
  /\ last.error = "Configuration error"
  /\ sessions # {}

\* C14: a creation with a zero or negative TTL is answered with success
\* false and a configuration error, never with a token, and stores no session.
Thm_C14_NonPositiveTtlRejected ==
  [][ (last'.op = "create" /\ last'.kubeconfig # None /\ last'.ttl_hours <= 0
         /\ last'.code = 200) =>
        /\ ~last'.success
        /\ last'.error = "Configuration error"
        /\ last'.token = None
        /\ sessions' = sessions
    ]_vars

Wit_C14_ZeroTtlRejected ==
  /\ last.op = "create"
  /\ last.kubeconfig = "valid"
  /\ last.ttl_hours = 0
  /\ last.error = "Configuration error"
  /\ ~last.success

\* C15: get returns a session for a token exactly when the token was issued,
\* no delete was reported for it and now is before its expires_at; an
\* expired session that is still stored is absent.
Thm_C15_GetIffIssuedLiveNotDeleted ==
  \A tok \in AdminTokens :
    (Mgr_get(sessions, tok, now) # NoSession) <=>
      (granted[tok] # 0 /\ del_true[tok] = 0 /\ now < granted[tok])

Wit_C15_ExpiredStoredIsAbsent ==
  \E x \in sessions :
    /\ now >= x.expires_at
    /\ Mgr_get(sessions, x.token, now) = NoSession

\* C16: an authorized delete is answered with success; it reports deleted
\* exactly when the token was live, at most once for a token, and the token
\* is absent afterwards.
Thm_C16_DeleteIdempotent ==
  [][ (last'.op = "delete" /\ last'.code = 200) =>
        /\ last'.success
        /\ last'.deleted <=> (Mgr_get(sessions, last'.token, now) # NoSession)
        /\ Mgr_get(sessions', last'.token, now') = NoSession
        /\ del_true'[last'.token] <= 1
    ]_vars

Wit_C16_SecondDeleteReportsFalse ==
  /\ last.op = "delete"
  /\ last.success
  /\ ~last.deleted
  /\ del_true[last.token] = 1

\* C17: GET /sessions/mine lists only sessions that are not expired and were
\* created under the key of the request.
Thm_C17_MineListsOwnSessionsOnly ==
  (last.op = "mine" /\ last.code = 200) =>
    \A i \in 1..Len(last.listed) :
      /\ last.listed[i].created_by = last.key
      /\ now < last.listed[i].expires_at

Wit_C17_OtherKeysSessionLeftOut ==
  /\ last.op = "mine"
  /\ Len(last.listed) = 1
  /\ \E x \in sessions : x.created_by # last.key /\ now < x.expires_at

\* C18: at most one handler runs at a time; the session a running delete
\* found and the session a running create stored are still stored when the
\* handler goes on; no token is reported deleted twice.
Thm_C18_HandlersMutuallyExclusive ==
  /\ Cardinality({ c \in Clients : Running(c) }) <= 1
  /\ \A c \in Clients :
       (reqs[c].op = "delete" /\ reqs[c].found) =>
         \E x \in sessions : x.token = reqs[c].token
  /\ \A c \in Clients :
       reqs[c].op = "create" => \E x \in sessions : x.token = reqs[c].token
  /\ \A tok \in AdminTokens : del_true[tok] <= 1

Wit_C18_RequestWaitsForRunningDelete ==
  \E c, d \in Clients :
    /\ c # d
    /\ reqs[c].op = "delete"
    /\ reqs[c].found
    /\ reqs[d] = Waiting

\* C19: posting never raises and gives a result string: the success string
\* with the channel exactly when the API answered ok=true, otherwise a
\* failure string with the API's error code ("unknown_error" without one) or
\* the exception's text; without a bot token the result is the "disabled"
\* string and no HTTP call is made.
CE_C19_PostAlwaysReturnsResultString ==
  /\ ~slack.raised
  /\ slack.pc = "done" =>
       /\ slack.result # NoResult
       /\ ~slack.bot_token => (slack.result = Disabled /\ slack.http_calls = 0)
       /\ slack.bot_token =>
            /\ (slack.result.text = "Message posted to") <=> (slack.reply = "json_ok")
            /\ slack.result.text \in
                 {"Message posted to", "Failed to post to", "Exception posting to Slack"}
            /\ slack.result.text # "Exception posting to Slack" =>
                 slack.result.channel = slack.posted
            /\ slack.result.text # "Message posted to" => slack.result.error # None

\* C20: the channel posted to is the input with one "#" put before it when
\* the input did not start with "#", and the input itself when it did;
\* normalizing it again changes nothing.
Thm_C20_NormalizationIdempotent ==
  slack.http_calls > 0 =>
    /\ StartsWithHash(slack.channel) => slack.posted = slack.channel
    /\ ~StartsWithHash(slack.channel) =>
         /\ Len(slack.posted) = Len(slack.channel) + 1
         /\ slack.posted[1] = "#"
         /\ \A i \in 1..Len(slack.channel) : slack.posted[i + 1] = slack.channel[i]
    /\ NormalizeChannel(slack.posted) = slack.posted
    /\ NormalizeChannel(NormalizeChannel(slack.channel)) = NormalizeChannel(slack.channel)

Wit_C20_HashAddedOnce ==
  /\ slack.http_calls > 0
  /\ Len(slack.channel) = MaxChannelLen
  /\ ~StartsWithHash(slack.channel)
  /\ slack.channel[2] = "#"
  /\ slack.posted = << "#" >> \o slack.channel

\* The tools named agent_MAKDO_Analyzer or agent_MAKDO_Fixer that carry a
\* sub-agent.
NamedTargets ==
  { i \in 1..Len(tool_dict) :
      tool_dict[i].name \in {AnalyzerTool, FixerTool} /\ tool_dict[i].agent # "none" }

\* C21: an injection step that comes to its end has counted exactly the
\* tools named agent_MAKDO_Analyzer or agent_MAKDO_Fixer that carry a
\* sub-agent, and has left the history of every other tool's agent as it was.
CE_C21_CountsNamedTargetsOnly ==
  [][ ( /\ inject_runs' = inject_runs + 1
        /\ pc' # "raised"
        /\ session_token # None
        /\ cluster_context # None )
      => /\ injected_count' = Cardinality(NamedTargets)
         /\ \A i \in (1..Len(tool_dict)) \ NamedTargets : hist'[i] = hist[i] ]_vars

\* C22: the injection step, also when a sub-agent's history raises while it
\* is cleared or appended to, is followed by the health-check loop.
CE_C22_InjectionFailureNotFatal ==
  [][ pc = "inject" => pc' = "loop" ]_vars

\* C23: a coordinator call that has been started comes to an end.
CE_C23_StartedCallEnds ==
  (call = "inflight") ~> (call # "inflight")

\* C24: a coordinator call is in flight only while the driver is inside
\* send_message; a call is started only from the top of the loop, with the
\* call, the reset and the sleep of the cycle before over; the driver changes
\* a history only in the injection step and in the reset step, when no call
\* is in flight.
Thm_C24_CyclesNeverOverlap ==
  /\ [](call = "inflight" <=> pc \in {"send_message", "hung"})
  /\ [][ /\ (pc' = "send_message" /\ pc # "send_message")
            => (pc = "loop" /\ call # "inflight" /\ cycle' = cycle + 1
                /\ Len(sleeps) = cycle)
         /\ (pc' = "loop" /\ pc # "loop") => pc \in {"inject", "sleep"}
         /\ (pc # "send_message" /\ (coord_msgs' # coord_msgs \/ hist' # hist))
            => (call # "inflight" /\ pc \in {"inject", "reset"}) ]_vars

Wit_C24_SecondCallAfterResetAndSleep ==
  /\ pc = "send_message"
  /\ call = "inflight"
  /\ cycle = 2
  /\ ~all_raised
  /\ Len(sleeps) = 1
  /\ Len(coord_msgs) = 1

\* C25: when a coordinator call is made, one sleep has returned for every
\* call made before it, after a failed cycle as after a successful one, none
\* before the first call, and every sleep was check_interval long.
Thm_C25_OneSleepBetweenCalls ==
  /\ pc = "send_message" => Len(sleeps) = cycle - 1
  /\ Len(sleeps) <= cycle
  /\ \A i \in 1..Len(sleeps) : sleeps[i] = check_interval

Wit_C25_SleptAfterFailedCycle ==
  /\ pc = "send_message"
  /\ cycle = 2
  /\ all_raised
  /\ sleeps = << 60 >>

\* C26: with an ApiKeyManager given, a request whose key the manager does
\* not validate is answered with 401 on every endpoint, no handler runs for
\* it and no session is created under it.
CE_C26_ManagerKeysOnly ==
  auth.manager =>
    /\ (last.op # "none" /\ last.key \notin auth.keys) => last.code = 401
    /\ \A c \in Clients : Running(c) => reqs[c].key \in auth.keys
    /\ \A x \in sessions : x.created_by \in auth.keys

\* C27: a create response with success=true carries a token that resolves
\* to a usable session when the response is sent, that session's expires_at,
\* and a connectivity_status of "connected" or "warning".
CE_C27_SuccessMeansUsableSession ==
  (last.op = "create" /\ last.success) =>
    /\ last.token # None
    /\ Mgr_get(sessions, last.token, now) # NoSession
    /\ last.expires_at # 0
    /\ last.status \in {"connected", "warning"}

\* C28: with no cluster configured the driver makes no session-create call,
\* holds no token, leaves every sub-agent history as it was and goes on to
\* the loop; with clusters configured the one call it makes is for the first.
Thm_C28_NoClustersNoSession ==
  /\ [](clusters = << >> =>
          /\ issue_calls = 0
          /\ session_token = None
          /\ cluster_context = None
          /\ injected_count = 0)
  /\ []((clusters # << >> /\ pc # "issue") =>
          /\ issue_calls = 1
          /\ cluster_context = clusters[1])
  /\ [][ (clusters = << >> /\ pc \in {"issue", "inject"})
           => (hist' = hist /\ pc' = IF pc = "issue" THEN "inject" ELSE "loop") ]_vars

Wit_C28_LoopStartedWithoutClusters ==
  /\ clusters = << >>
  /\ pc = "send_message"
  /\ cycle = 1
  /\ inject_runs = 1
  /\ hist = hist0
  /\ \E i \in 1..Len(hist) : hist[i] # << >>


\* C29: after setup_tool_call_monitoring, a call of a tool of the coordinator
\* or of a sub-agent invokes that tool's original run exactly once with the
\* same arguments, and ends as that run ended: the same result returned, the
\* same exception raised.
CE_C29_MonitoringTransparent ==
  monitor.pc = "called" =>
    /\ monitor.invoked = << [tool |-> monitor.tool, args |-> monitor.args,
                            kwargs |-> monitor.kwargs] >>
    /\ monitor.out = monitor.outcome


====
